---- MODULE Spec2Model ----
(***************************************************************************)
(* Lowering of TKSL programs to Tierkreis graphs by TkslTopVisitor         *)
(* (src/tierkreis/frontend/tksl/antlr_test.py).                            *)
(*                                                                         *)
(* The lowering is modelled as a stack of visitors.  The bottom frame is   *)
(* the visitor of visitStart; visitFuncDef, visitIfBlock and visitLoop     *)
(* push the sub-visitors they construct and pop them when the              *)
(* visitCode_block of the nested block returns.  The program text is the   *)
(* input: each action draws the next declaration or instruction from a     *)
(* bounded set of syntax trees.  A raised exception ends the lowering.     *)
(*                                                                         *)
(* Two further machines use the lowering's graphs: the type-check bridge   *)
(* infer_graph_types (src/tierkreis/frontend/type_inference.py) and the    *)
(* commands build and check of the driver                                  *)
(* (src/tierkreis/frontend/tksl/cli.py).                                   *)
(***************************************************************************)
EXTENDS Integers, Sequences, FiniteSets, TLC

VARIABLES frag, stack, status, result, last, size, twin, bridge, driver

vars == <<frag, stack, status, result, last, size, twin, bridge, driver>>

(***************************************************************************)
(* Bounds of the model.                                                    *)
(***************************************************************************)
\* Largest size of the program lowered in one run (see Cost).
MaxSize == 8
\* Longest argument list (named or positional) and parameter list.
MaxArgs == 2
\* Deepest nesting of visitors (visitStart, function body, if/loop block...).
MaxDepth == 3

(***************************************************************************)
(* Identifiers of the source programs.                                     *)
(***************************************************************************)
Ids == {"a", "b"}
FuncNames == {"a", "main"}
ConstVals == {1}

EmptyMap == [x \in {} |-> 0]

Put(m, k, v) == [x \in DOMAIN m \cup {k} |-> IF x = k THEN v ELSE m[x]]

SeqRange(s) == {s[i] : i \in 1..Len(s)}

\* Sequences over S of length lo..hi.
SeqsOf(S, lo, hi) == UNION {[1..n -> S] : n \in lo..hi}

Distinct(s) == \A i, j \in 1..Len(s) : i # j => s[i] # s[j]

(***************************************************************************)
(* FunctionDefinition and the runtime signature.                           *)
(***************************************************************************)
FunctionDefinition(ins, outs, gt) ==
    [inputs |-> ins, outputs |-> outs, graph_type |-> gt]

TierkreisFunction(n, ins, outs) ==
    [name |-> n, input_order |-> ins, output_order |-> outs]

\* The catalog handed to the visitor: namespace -> name -> TierkreisFunction.
\* builtin/eval, builtin/switch and builtin/loop are the operations the
\* visitor itself emits; builtin/b and ns/a stand for runtime operations.
sig ==
    [ builtin |->
        [ b      |-> TierkreisFunction("builtin/b", <<"a", "b">>, <<"a", "b">>),
          eval   |-> TierkreisFunction("builtin/eval", <<"thunk">>, <<>>),
          switch |-> TierkreisFunction("builtin/switch",
                                       <<"pred", "if_true", "if_false">>, <<"value">>),
          loop   |-> TierkreisFunction("builtin/loop", <<"condition", "body">>, <<>>) ],
      ns |->
        [ a      |-> TierkreisFunction("ns/a", <<"a">>, <<"a">>) ] ]

def_from_tkfunc(func) ==
    FunctionDefinition(func.input_order, func.output_order, "None")

(***************************************************************************)
(* Context.                                                                *)
(***************************************************************************)
Context ==
    [ functions   |-> EmptyMap,
      output_vars |-> EmptyMap,
      constants   |-> EmptyMap,
      inputs      |-> <<>>,
      outputs     |-> <<>>,
      aliases     |-> EmptyMap ]

\* copy.deepcopy: the copy is a value equal to the original and shares
\* nothing with it.
ContextCopy(c) == c

(***************************************************************************)
(* TierkreisGraph.  Nodes are numbered in creation order; the boundary     *)
(* nodes input and output are the first two.                               *)
(***************************************************************************)
InputRef == 1
OutputRef == 2

Node(kind, name, lit, sub) ==
    [kind |-> kind, name |-> name, lit |-> lit, sub |-> sub]

NodePort(n, p) == [node |-> n, port |-> p]

TierkreisEdge(s, t) == [source |-> s, target |-> t]

TierkreisGraph ==
    [ nodes |-> << Node("input", "input", 0, <<>>),
                   Node("output", "output", 0, <<>>) >>,
      edges |-> <<>> ]

\* Results of the visit methods: the graph as left by the visit, the value
\* returned, and the exception raised ("" when none).
Ok(g, v) == [err |-> "", g |-> g, val |-> v]
Fail(e, g) == [err |-> e, g |-> g, val |-> <<>>]

\* A local of a method: [v \in {e} |-> body] is body with v bound to e.
Let(f) == f[CHOOSE v \in DOMAIN f : TRUE]

PortWired(g, t) == \E i \in 1..Len(g.edges) : g.edges[i].target = t

add_edge(g, s, t) ==
    IF PortWired(g, t)
    THEN Fail("PortDoubleWired", g)
    ELSE Ok([g EXCEPT !.edges = Append(@, TierkreisEdge(s, t))], <<>>)

\* add_const(value): a constant node; val is the new NodeRef.
add_const_lit(g, v) ==
    LET g2 == [g EXCEPT !.nodes = Append(@, Node("const", "const", v, <<>>))]
    IN  Ok(g2, Len(g2.nodes))

add_const_graph(g, sub) ==
    LET g2 == [g EXCEPT !.nodes = Append(@, Node("const", "const", 0, <<sub>>))]
    IN  Ok(g2, Len(g2.nodes))

\* A keyword argument of add_node/add_box/set_outputs: the target port and
\* either a NodePort (np) or a graph value (sub), which is carried into the
\* graph by a constant node of its own.
KwPort(p, np) == [port |-> p, np |-> <<np>>, sub |-> <<>>]
KwGraph(p, sub) == [port |-> p, np |-> <<>>, sub |-> <<sub>>]

RECURSIVE WireAll(_, _, _, _)
WireAll(g, n, kwargs, i) ==
    IF i > Len(kwargs) THEN Ok(g, n)
    ELSE Let([c \in {IF kwargs[i].sub # <<>>
             THEN add_const_graph(g, kwargs[i].sub[1])
             ELSE Ok(g, 0)} |->
         Let([r \in {add_edge(c.g,
                      IF kwargs[i].sub # <<>> THEN NodePort(c.val, "value")
                      ELSE kwargs[i].np[1],
                      NodePort(n, kwargs[i].port))} |->
         IF r.err # "" THEN r ELSE WireAll(r.g, n, kwargs, i + 1)])])

add_node(g, name, kwargs) ==
    LET g2 == [g EXCEPT !.nodes = Append(@, Node("node", name, 0, <<>>))]
    IN  WireAll(g2, Len(g2.nodes), kwargs, 1)

add_box(g, sub, name, kwargs) ==
    LET g2 == [g EXCEPT !.nodes = Append(@, Node("box", name, 0, <<sub>>))]
    IN  WireAll(g2, Len(g2.nodes), kwargs, 1)

set_outputs(g, kwargs) == WireAll(g, OutputRef, kwargs, 1)

\* outputs(): the wired ports of the output node, in wiring order.
RECURSIVE GraphOutputsFrom(_, _)
GraphOutputsFrom(g, i) ==
    IF i > Len(g.edges) THEN <<>>
    ELSE IF g.edges[i].target.node = OutputRef
         THEN <<g.edges[i].target.port>> \o GraphOutputsFrom(g, i + 1)
         ELSE GraphOutputsFrom(g, i + 1)

GraphOutputs(g) == GraphOutputsFrom(g, 1)

make_outports(node_ref, ports) ==
    [i \in 1..Len(ports) |-> NodePort(node_ref, ports[i])]

(***************************************************************************)
(* Syntax trees.                                                           *)
(*   out-port:  bare identifier | var.port | inline constant | nested call *)
(*   arglist:   named map (keys, items) | positional list (items)          *)
(*   call:      function call ns::f(arglist) | thunk !port(named map)      *)
(***************************************************************************)
MkId(x) == [k |-> "id", id |-> x, port |-> "", lit |-> 0, call |-> <<>>]
MkLabel(x, p) == [k |-> "label", id |-> x, port |-> p, lit |-> 0, call |-> <<>>]
MkConst(v) == [k |-> "const", id |-> "", port |-> "", lit |-> v, call |-> <<>>]
MkCall(c) == [k |-> "call", id |-> "", port |-> "", lit |-> 0, call |-> <<c>>]

NamedMap(keys, items) == [form |-> "named", keys |-> keys, items |-> items]
PositionalArgs(items) == [form |-> "pos", keys |-> <<>>, items |-> items]
NoArgs == [form |-> "none", keys |-> <<>>, items |-> <<>>]

\* ns = "" when the name is unqualified.
FuncCall(ns, f, args) ==
    [kind |-> "func", ns |-> ns, f |-> f, thunk |-> <<>>, args |-> args]
Thunk(port, args) ==
    [kind |-> "thunk", ns |-> "", f |-> "", thunk |-> <<port>>, args |-> args]

\* The names a call can be made by: unqualified, qualified by a namespace of
\* the catalog, qualified by a namespace the catalog does not have.
CallNames == {<<"", "a">>, <<"", "b">>, <<"ns", "a">>, <<"zz", "a">>}

Labels == {MkLabel(x, p) : x \in Ids, p \in Ids}

\* Parameter lists of a graph type: the labels (the annotations are
\* primitive types).  A signature is an ordered mapping, its labels differ.
ParamLists == {p \in SeqsOf(Ids, 0, MaxArgs) : Distinct(p)}

\* A type expression is a primitive type or the name of an alias.
PrimTypes == {"Int"}

TypeExprs == PrimTypes \cup {"a"}

\* The size of a syntax tree is the number of its names, keys, literals and
\* port references (var.port is one port reference).
RECURSIVE Cost(_)
RECURSIVE CostAll(_, _)
ArgCost(args) == CostAll(args.items, 1) + Len(args.keys)

NameCost(nm) == IF nm[1] = "" THEN 1 ELSE 2

CallCost(c) ==
    (IF c.kind = "thunk" THEN Cost(c.thunk[1]) ELSE NameCost(<<c.ns, c.f>>))
    + ArgCost(c.args)

Cost(o) == IF o.k = "call" THEN CallCost(o.call[1]) ELSE 1

CostAll(items, i) ==
    IF i > Len(items) THEN 0 ELSE Cost(items[i]) + CostAll(items, i + 1)

(***************************************************************************)
(* The programs lowered.  A program is written in one fragment of the      *)
(* language: the kinds of declarations and instructions it uses and the    *)
(* names, keys, out-ports and argument lists they are built from.          *)
(***************************************************************************)
Fragment ==
    [ \* one identifier in every role: which table a name is found in, and
      \* what a second declaration of a name does
      scope |->
        [ kinds |-> {"funcdef", "const", "call", "output"},
          targets |-> {"a"}, keys |-> {"a"}, ids |-> {"a"}, labels |-> {},
          lits |-> ConstVals, nested |-> {},
          callnames |-> {<<"", "a">>, <<"", "b">>}, thunks |-> FALSE,
          forms |-> {"named", "pos"}, items |-> 1,
          funcs |-> FuncNames, params |-> {<<>>, <<"a">>},
          results |-> {<<>>, <<"a", "b">>},
          aliasnames |-> {}, types |-> {}, size |-> MaxSize ],
      \* calls: every way to name a function and to write its arguments
      calls |->
        [ kinds |-> {"funcdef", "call", "output"},
          targets |-> {"a"}, keys |-> Ids, ids |-> Ids, labels |-> Labels,
          lits |-> ConstVals, nested |-> {<<"", "a">>, <<"", "b">>},
          callnames |-> CallNames, thunks |-> TRUE,
          forms |-> {"named", "pos"}, items |-> MaxArgs,
          funcs |-> FuncNames, params |-> {<<>>}, results |-> {<<>>, <<"a", "b">>},
          aliasnames |-> {}, types |-> {}, size |-> MaxSize - 2 ],
      \* explicit edges between the ports of calls
      edges |->
        [ kinds |-> {"funcdef", "call", "edge"},
          targets |-> Ids, keys |-> {"a"}, ids |-> {}, labels |-> Labels,
          lits |-> ConstVals, nested |-> {},
          callnames |-> {<<"", "b">>}, thunks |-> FALSE,
          forms |-> {"named", "pos"}, items |-> 1,
          funcs |-> {"main"}, params |-> {<<>>}, results |-> {<<>>},
          aliasnames |-> {}, types |-> {}, size |-> MaxSize ],
      \* nested blocks: if and loop
      blocks |->
        [ kinds |-> {"alias", "funcdef", "const", "output", "if", "loop"},
          targets |-> {"a"}, keys |-> Ids, ids |-> {"a"}, labels |-> {},
          lits |-> ConstVals, nested |-> {<<"", "b">>},
          callnames |-> {}, thunks |-> FALSE,
          forms |-> {"named"}, items |-> MaxArgs,
          funcs |-> {"main"}, params |-> {<<>>}, results |-> {<<>>},
          aliasnames |-> {"a"}, types |-> TypeExprs, size |-> MaxSize ],
      \* declarations: parameter lists and calls of declared functions
      decls |->
        [ kinds |-> {"funcdef", "call", "output"},
          targets |-> {"a"}, keys |-> {}, ids |-> {"a"}, labels |-> {},
          lits |-> ConstVals, nested |-> {},
          callnames |-> {<<"", "a">>}, thunks |-> FALSE,
          forms |-> {"pos"}, items |-> MaxArgs,
          funcs |-> FuncNames, params |-> ParamLists, results |-> ParamLists,
          aliasnames |-> {}, types |-> {}, size |-> MaxSize ] ]

FragNames == DOMAIN Fragment

\* Out-ports of size at most c.
ThunkablePorts(V, c) ==
    IF c >= 1 THEN {MkId(x) : x \in V.ids} \cup V.labels ELSE {}

SimpleOutports(V, c) ==
    ThunkablePorts(V, c) \cup (IF c >= 1 THEN {MkConst(v) : v \in V.lits} ELSE {})

\* A call nested in an out-port: f(o) with o a simple out-port.
NestedCalls(V, c) ==
    UNION {{MkCall(FuncCall(nm[1], nm[2], PositionalArgs(<<o>>))) :
                o \in SimpleOutports(V, c - NameCost(nm))} : nm \in V.nested}

Outports(V, c) == SimpleOutports(V, c) \cup NestedCalls(V, c)

\* Lists of at most n simple out-ports of total size at most c; each item
\* costs extra on top of its own size (1 for the key of a named item).
RECURSIVE ItemLists(_, _, _, _)
ItemLists(V, n, c, extra) ==
    {<<>>} \cup
    (IF n = 0 THEN {}
     ELSE UNION {{<<x>> \o r : r \in ItemLists(V, n - 1, c - Cost(x) - extra, extra)} :
                    x \in SimpleOutports(V, c - extra)})

\* The items of an argument list: simple out-ports, or one nested call.
Items(V, c, extra) ==
    (ItemLists(V, V.items, c, extra) \ {<<>>})
    \cup {<<o>> : o \in NestedCalls(V, c - extra)}

KeyLists(V, n) == [1..n -> V.keys]

\* Argument lists of size at most c.
NamedMaps(V, c) ==
    IF "named" \in V.forms
    THEN UNION {{NamedMap(ks, os) : ks \in KeyLists(V, Len(os))} : os \in Items(V, c, 1)}
    ELSE {}

ArgLists(V, c) ==
    (IF "pos" \in V.forms THEN {PositionalArgs(os) : os \in Items(V, c, 0)} ELSE {})
    \cup NamedMaps(V, c)

OptNamedMaps(V, c) == {NoArgs} \cup NamedMaps(V, c)

Calls(V, c) ==
    UNION {{FuncCall(nm[1], nm[2], a) : a \in ArgLists(V, c - NameCost(nm))} :
            nm \in V.callnames}
    \cup (IF V.thunks
          THEN UNION {{Thunk(p, a) : a \in OptNamedMaps(V, c - Cost(p))} :
                        p \in ThunkablePorts(V, c)}
          ELSE {})

Min(x, y) == IF x < y THEN x ELSE y

(***************************************************************************)
(* The visit methods of TkslTopVisitor on expressions.  ctx is the         *)
(* visitor's context and g its graph.                                      *)
(***************************************************************************)
visitPort_label(ctx, g, o) ==
    IF o.id \in DOMAIN ctx.output_vars
    THEN Ok(g, <<NodePort(ctx.output_vars[o.id].node, o.port)>>)
    ELSE Fail("KeyError", g)

\* visitF_name looking in the local functions before the catalog.
visitF_name_local_first(ctx, c) ==
    LET namespace == IF c.ns # "" THEN c.ns ELSE "builtin"
    IN  IF c.f \in DOMAIN ctx.functions
        THEN [err |-> "", name |-> c.f, fdef |-> ctx.functions[c.f].fdef]
        ELSE IF namespace \in DOMAIN sig /\ c.f \in DOMAIN sig[namespace]
        THEN [err |-> "", name |-> sig[namespace][c.f].name,
              fdef |-> def_from_tkfunc(sig[namespace][c.f])]
        ELSE [err |-> "UnknownFunction", name |-> c.f,
              fdef |-> FunctionDefinition(<<>>, <<>>, "None")]

visitF_name(ctx, c) ==
    LET namespace == IF c.ns # "" THEN c.ns ELSE "builtin"
    IN  IF namespace \in DOMAIN sig /\ c.f \in DOMAIN sig[namespace]
        THEN [err |-> "", name |-> sig[namespace][c.f].name,
              fdef |-> def_from_tkfunc(sig[namespace][c.f])]
        ELSE IF c.f \in DOMAIN ctx.functions
        THEN [err |-> "", name |-> c.f, fdef |-> ctx.functions[c.f].fdef]
        ELSE [err |-> "UnknownFunction", name |-> c.f,
              fdef |-> FunctionDefinition(<<>>, <<>>, "None")]

\* visitThunkable_port with the four tables tried in the opposite order.
visitThunkable_port_reversed(ctx, g, o) ==
    IF o.k = "label" THEN visitPort_label(ctx, g, o)
    ELSE IF o.id \in DOMAIN ctx.constants
    THEN Ok(g, <<NodePort(ctx.constants[o.id], "value")>>)
    ELSE IF o.id \in DOMAIN ctx.functions
    THEN LET c == add_const_graph(g, ctx.functions[o.id].graph)
         IN  Ok(c.g, <<NodePort(c.val, "value")>>)
    ELSE IF o.id \in DOMAIN ctx.output_vars
    THEN Ok(g, make_outports(ctx.output_vars[o.id].node,
                             ctx.output_vars[o.id].fdef.outputs))
    ELSE IF o.id \in SeqRange(ctx.inputs)
    THEN Ok(g, <<NodePort(InputRef, o.id)>>)
    ELSE Fail("NameNotInScope", g)

visitThunkable_port(ctx, g, o) ==
    IF o.k = "label" THEN visitPort_label(ctx, g, o)
    ELSE IF o.id \in SeqRange(ctx.inputs)
    THEN Ok(g, <<NodePort(InputRef, o.id)>>)
    ELSE IF o.id \in DOMAIN ctx.output_vars
    THEN Ok(g, make_outports(ctx.output_vars[o.id].node,
                             ctx.output_vars[o.id].fdef.outputs))
    ELSE IF o.id \in DOMAIN ctx.functions
    THEN LET c == add_const_graph(g, ctx.functions[o.id].graph)
         IN  Ok(c.g, <<NodePort(c.val, "value")>>)
    ELSE IF o.id \in DOMAIN ctx.constants
    THEN Ok(g, <<NodePort(ctx.constants[o.id], "value")>>)
    ELSE Fail("NameNotInScope", g)

\* dict(pairs): a key keeps the place of its first occurrence and the value
\* of its last.
RECURSIVE DictFrom(_, _, _)
DictFrom(pairs, i, acc) ==
    IF i > Len(pairs) THEN acc
    ELSE LET p == pairs[i]
             at == {j \in 1..Len(acc) : acc[j].port = p.port}
         IN  DictFrom(pairs, i + 1,
                      IF at = {} THEN Append(acc, p)
                      ELSE [j \in 1..Len(acc) |-> IF j \in at THEN p ELSE acc[j]])

dict(pairs) == DictFrom(pairs, 1, <<>>)

\* zip(expected_ports, ports): as long as the shorter of the two.
zip(expected, ports) ==
    [i \in 1..Min(Len(expected), Len(ports)) |-> KwPort(expected[i], ports[i])]

RECURSIVE visitOutport(_, _, _)
RECURSIVE visitPositional_args(_, _, _, _, _)
RECURSIVE NamedPairs(_, _, _, _, _)
RECURSIVE visitArglist(_, _, _, _)
RECURSIVE visitFuncCall(_, _, _)

visitNamed_map(ctx, g, args) ==
    Let([r \in {NamedPairs(ctx, g, args, 1, <<>>)} |->
        IF r.err # "" THEN r ELSE Ok(r.g, dict(r.val))])

\* visitPort_map on each port_l item in turn: only one outport per port map.
NamedPairs(ctx, g, args, i, acc) ==
    IF i > Len(args.items) THEN Ok(g, acc)
    ELSE Let([r \in {visitOutport(ctx, g, args.items[i])} |->
             IF r.err # "" THEN r
             ELSE IF r.val = <<>> THEN Fail("IndexError", r.g)
             ELSE NamedPairs(ctx, r.g, args, i + 1,
                             Append(acc, KwPort(args.keys[i], r.val[1])))])

\* sum(map(self.visitOutport, ctx.arg_l), [])
visitPositional_args(ctx, g, args, i, acc) ==
    IF i > Len(args.items) THEN Ok(g, acc)
    ELSE Let([r \in {visitOutport(ctx, g, args.items[i])} |->
             IF r.err # "" THEN r
             ELSE visitPositional_args(ctx, r.g, args, i + 1, acc \o r.val)])

visitArglist(ctx, g, args, expected_ports) ==
    IF args.form = "named" THEN visitNamed_map(ctx, g, args)
    ELSE IF args.form = "pos"
    THEN Let([r \in {visitPositional_args(ctx, g, args, 1, <<>>)} |->
             IF r.err # "" THEN r ELSE Ok(r.g, dict(zip(expected_ports, r.val)))])
    ELSE Fail("RuntimeError", g)

visitFuncCall(ctx, g, c) ==
    Let([f \in {visitF_name(ctx, c)} |->
    IF f.err # "" THEN Fail(f.err, g)
    ELSE Let([a \in {visitArglist(ctx, g, c.args, f.fdef.inputs)} |->
         IF a.err # "" THEN a
         ELSE Let([n \in {IF f.name \in DOMAIN ctx.functions
                  THEN add_box(a.g, ctx.functions[f.name].graph, f.name, a.val)
                  ELSE add_node(a.g, f.name, a.val)} |->
              IF n.err # "" THEN n
              ELSE Ok(n.g, [node |-> n.val, fdef |-> f.fdef])])])])

visitThunk(ctx, g, c) ==
    Let([p \in {visitThunkable_port(ctx, g, c.thunk[1])} |->
    IF p.err # "" THEN p
    ELSE IF p.val = <<>> THEN Fail("IndexError", p.g)
    ELSE Let([a \in {IF c.args.form = "named"
             THEN visitNamed_map(ctx, p.g, c.args) ELSE Ok(p.g, <<>>)} |->
         IF a.err # "" THEN a
         ELSE IF \E i \in 1..Len(a.val) : a.val[i].port = "thunk"
         THEN Fail("TypeError", a.g)
         ELSE Let([n \in {add_node(a.g, "builtin/eval", <<KwPort("thunk", p.val[1])>> \o a.val)} |->
              IF n.err # "" THEN n
              ELSE Ok(n.g, [node |-> n.val,
                            fdef |-> def_from_tkfunc(sig["builtin"]["eval"])])])])])

visitCall(ctx, g, c) ==
    IF c.kind = "thunk" THEN visitThunk(ctx, g, c) ELSE visitFuncCall(ctx, g, c)

visitOutport(ctx, g, o) ==
    IF o.k \in {"id", "label"} THEN visitThunkable_port(ctx, g, o)
    ELSE IF o.k = "call"
    THEN Let([r \in {visitCall(ctx, g, o.call[1])} |->
             IF r.err # "" THEN r
             ELSE Ok(r.g, make_outports(r.val.node, r.val.fdef.outputs))])
    ELSE Let([c \in {add_const_lit(g, o.lit)} |->
             Ok(c.g, <<NodePort(c.val, "value")>>)])

(***************************************************************************)
(* Visitors.  A frame is one TkslTopVisitor: its context, its graph, and   *)
(* (pend) the locals of the method of the enclosing visitor that made it   *)
(* and waits for its visitCode_block to return.                            *)
(***************************************************************************)
NoPend ==
    [ name |-> "", fdef |-> FunctionDefinition(<<>>, <<>>, "None"), cond |-> <<>>,
      inputs |-> <<>>, ctx0 |-> Context, g1 |-> <<>> ]

\* TkslTopVisitor(signature, context): the visitor works on a copy of the
\* context it is given and on a graph of its own.
TkslTopVisitor(kind, context, pend) ==
    [kind |-> kind, context |-> ContextCopy(context), graph |-> TierkreisGraph,
     pend |-> pend]

\* The lowering as a whole: the visitors, "run" or how it ended, and the
\* graph visitStart returned (none: <<>>).
Lowering(st, status_, res) == [stack |-> st, status |-> status_, result |-> res]

Top(S) == S.stack[Len(S.stack)]

Below(S) == S.stack[Len(S.stack) - 1]

SetTop(S, f) == [S EXCEPT !.stack[Len(S.stack)] = f]

Raise(S, e) == [S EXCEPT !.status = e]

\* A sub-visitor that worked on the context of the visitor that made it.
ReturnTo_shared_context(parent, child) == [parent EXCEPT !.context = child.context]

\* A sub-visitor that built into the graph of the visitor that made it.
ReturnTo_shared_graph(parent, child) ==
    [parent EXCEPT !.graph.nodes = @ \o SubSeq(child.graph.nodes, 3, Len(child.graph.nodes))]

\* The visitor that constructed a sub-visitor, when the sub-visitor's
\* visitCode_block has returned: the sub-visitor worked on its own copy of
\* the context and on its own graph, so nothing of the parent has changed.
ReturnTo(parent, child) == parent

\* The context the second sub-visitor of an if or a loop is made from: the
\* one the first was made from, which the first has not touched.
SiblingContext(ctx0, first) == ctx0

(***************************************************************************)
(* Declarations (visitor of visitStart).                                   *)
(***************************************************************************)
visitType_(ctx, ty) ==
    IF ty \in PrimTypes THEN [err |-> "", type |-> ty]
    ELSE IF ty \in DOMAIN ctx.aliases THEN [err |-> "", type |-> ctx.aliases[ty]]
    ELSE [err |-> "KeyError", type |-> ""]

visitTypeAlias(S, name, ty) ==
    LET t == visitType_(Top(S).context, ty)
    IN  IF t.err # "" THEN Raise(S, t.err)
        ELSE SetTop(S, [Top(S) EXCEPT !.context.aliases = Put(@, name, t.type)])

\* The labels of a parameter list in the opposite order.
visitF_param_list_reversed(par_list) ==
    [i \in 1..Len(par_list) |-> par_list[Len(par_list) + 1 - i]]

\* OrderedDict(map(self.visitF_param, ctx.par_list)): the labels in source
\* order, a repeated label kept once at its first place.
RECURSIVE visitF_param_list(_)
visitF_param_list(par_list) ==
    IF par_list = <<>> THEN <<>>
    ELSE LET init == visitF_param_list(SubSeq(par_list, 1, Len(par_list) - 1))
             x    == par_list[Len(par_list)]
         IN  IF x \in SeqRange(init) THEN init ELSE Append(init, x)

visitGraph_type(ins, outs) ==
    FunctionDefinition(visitF_param_list(ins), visitF_param_list(outs), "GraphType")

\* visitFuncDef up to the call of def_visit.visitCode_block.
FuncDefEnter(S, name, ins, outs) ==
    LET f_def   == visitGraph_type(ins, outs)
        copied  == ContextCopy(Top(S).context)
        context == [copied EXCEPT !.inputs = f_def.inputs, !.outputs = f_def.outputs]
        pend    == [NoPend EXCEPT !.name = name, !.fdef = f_def]
    IN  [S EXCEPT !.stack = Append(@, TkslTopVisitor("func", context, pend))]

\* visitFuncDef from the return of def_visit.visitCode_block.
FuncDefExit(S) ==
    LET child  == Top(S)
        parent == ReturnTo(Below(S), child)
        entry  == [graph |-> child.graph, fdef |-> child.pend.fdef]
    IN  [S EXCEPT !.stack =
            Append(SubSeq(@, 1, Len(@) - 2),
                   [parent EXCEPT !.context.functions = Put(@, child.pend.name, entry)])]

\* visitStart after the declarations: self.context.functions["main"][0].
visitStart(S) ==
    IF "main" \in DOMAIN Top(S).context.functions
    THEN [S EXCEPT !.status = "done",
                   !.result = <<Top(S).context.functions["main"].graph>>]
    ELSE Raise(S, "KeyError")

(***************************************************************************)
(* Instructions of a code block.                                           *)
(***************************************************************************)
visitConstDecl(S, name, v) ==
    LET c == add_const_lit(Top(S).graph, v)
    IN  SetTop(S, [Top(S) EXCEPT !.graph = c.g,
                                 !.context.constants = Put(@, name, c.val)])

visitCallMap(S, target, call) ==
    Let([r \in {visitCall(Top(S).context, Top(S).graph, call)} |->
        IF r.err # "" THEN Raise(S, r.err)
        ELSE SetTop(S, [Top(S) EXCEPT !.graph = r.g,
                                      !.context.output_vars = Put(@, target, r.val)])])

visitOutputCall(S, args) ==
    Let([a \in {visitArglist(Top(S).context, Top(S).graph, args, Top(S).context.outputs)} |->
    Let([o \in {IF a.err # "" THEN a ELSE set_outputs(a.g, a.val)} |->
        IF o.err # "" THEN Raise(S, o.err)
        ELSE SetTop(S, [Top(S) EXCEPT !.graph = o.g])])])

\* visitEdge putting the edge into the graph whatever the target port holds.
visitEdge_unchecked(S, source, target) ==
    LET s == visitPort_label(Top(S).context, Top(S).graph, source)
        t == visitPort_label(Top(S).context, Top(S).graph, target)
    IN  IF s.err # "" THEN Raise(S, s.err)
        ELSE IF t.err # "" THEN Raise(S, t.err)
        ELSE SetTop(S, [Top(S) EXCEPT
                          !.graph.edges = Append(@, TierkreisEdge(s.val[1], t.val[1]))])

visitEdge(S, source, target) ==
    LET s == visitPort_label(Top(S).context, Top(S).graph, source)
        t == visitPort_label(Top(S).context, Top(S).graph, target)
        e == IF s.err # "" THEN s
             ELSE IF t.err # "" THEN t
             ELSE add_edge(Top(S).graph, s.val[1], t.val[1])
    IN  IF e.err # "" THEN Raise(S, e.err)
        ELSE SetTop(S, [Top(S) EXCEPT !.graph = e.g])

\* list(OrderedDict({inp: None for inp in inputs}))
KwNames(kwargs) == [i \in 1..Len(kwargs) |-> kwargs[i].port]

\* The context made for the sub-visitors of an if or a loop.
BlockContext(ctx, inputs) ==
    [Context EXCEPT !.functions = ctx.functions, !.inputs = KwNames(inputs)]

\* visitIfBlock up to the call of ifvisit.visitCode_block.
IfEnter(S, target, condition, inputs) ==
    Let([c \in {visitOutport(Top(S).context, Top(S).graph, condition)} |->
    IF c.err # "" THEN Raise(S, c.err)
    ELSE IF c.val = <<>> THEN Raise(S, "IndexError")
    ELSE Let([i \in {IF inputs.form = "named"
             THEN visitNamed_map(Top(S).context, c.g, inputs)
             ELSE Ok(c.g, <<>>)} |->
         IF i.err # "" THEN Raise(S, i.err)
         ELSE Let([ifcontext \in {BlockContext(Top(S).context, i.val)} |->
              [S EXCEPT !.stack =
                  Append(SubSeq(@, 1, Len(@) - 1), [Top(S) EXCEPT !.graph = i.g])
                  \o <<TkslTopVisitor("then", ifcontext,
                                      [NoPend EXCEPT !.name = target,
                                                     !.cond = <<c.val[1]>>,
                                                     !.inputs = i.val,
                                                     !.ctx0 = ifcontext])>>]])])])

\* visitLoop up to the call of bodyvisit.visitCode_block.
LoopEnter(S, target, inputs) ==
    Let([i \in {IF inputs.form = "named"
        THEN visitNamed_map(Top(S).context, Top(S).graph, inputs)
        ELSE Ok(Top(S).graph, <<>>)} |->
    IF i.err # "" THEN Raise(S, i.err)
    ELSE Let([loopcontext \in {BlockContext(Top(S).context, i.val)} |->
         [S EXCEPT !.stack =
             Append(SubSeq(@, 1, Len(@) - 1), [Top(S) EXCEPT !.graph = i.g])
             \o <<TkslTopVisitor("body", loopcontext,
                                 [NoPend EXCEPT !.name = target,
                                                !.inputs = i.val,
                                                !.ctx0 = loopcontext])>>]])])

\* From the return of the first sub-visitor's visitCode_block (then, body)
\* to the call of the second's (else, condition).
SecondBlock(S, kind) ==
    LET first == Top(S)
        pend  == [first.pend EXCEPT !.g1 = <<first.graph>>]
    IN  [S EXCEPT !.stack =
            Append(SubSeq(@, 1, Len(@) - 2), ReturnTo(Below(S), first))
            \o <<TkslTopVisitor(kind, SiblingContext(first.pend.ctx0, first), pend)>>]

\* The names of the first block only.
SetOrder_first_only(order, xs, ys) ==
    SelectSeq(order, LAMBDA x : x \in SeqRange(xs))

\* Iteration order of set(xs).union(ys): order is the order the interpreter
\* happens to keep the strings of the set in.
SetOrder(order, xs, ys) ==
    SelectSeq(order, LAMBDA x : x \in SeqRange(xs) \cup SeqRange(ys))

\* visitIfBlock from the return of elsevisit.visitCode_block.
IfExit(S, order) ==
    Let([parent \in {ReturnTo(Below(S), Top(S))} |->
    Let([pend \in {Top(S).pend} |->
    Let([sw_nod \in {add_node(parent.graph, "builtin/switch",
                 << KwPort("pred", pend.cond[1]),
                    KwGraph("if_true", pend.g1[1]),
                    KwGraph("if_false", Top(S).graph) >>)} |->
    Let([eval_n \in {add_node(sw_nod.g, "builtin/eval",
                 <<KwPort("thunk", NodePort(sw_nod.val, "value"))>> \o pend.inputs)} |->
    Let([output_names \in {SetOrder(order, GraphOutputs(pend.g1[1]), GraphOutputs(Top(S).graph))} |->
    Let([fake_func \in {FunctionDefinition(pend.ctx0.inputs, output_names, "None")} |->
        IF \E i \in 1..Len(pend.inputs) : pend.inputs[i].port = "thunk"
        THEN Raise(S, "TypeError")
        ELSE [S EXCEPT !.stack =
                Append(SubSeq(@, 1, Len(@) - 2),
                       [parent EXCEPT
                          !.graph = eval_n.g,
                          !.context.output_vars =
                              Put(@, pend.name,
                                  [node |-> eval_n.val, fdef |-> fake_func])])]])])])])])])

\* visitLoop from the return of conditionvisit.visitCode_block.
LoopExit(S) ==
    Let([parent \in {ReturnTo(Below(S), Top(S))} |->
    Let([pend \in {Top(S).pend} |->
    Let([loop_nod \in {add_node(parent.graph, "builtin/loop",
                 << KwGraph("condition", Top(S).graph),
                    KwGraph("body", pend.g1[1]) >> \o pend.inputs)} |->
    Let([fake_func \in {FunctionDefinition(pend.ctx0.inputs, GraphOutputs(pend.g1[1]), "None")} |->
        IF \E i \in 1..Len(pend.inputs) : pend.inputs[i].port \in {"condition", "body"}
        THEN Raise(S, "TypeError")
        ELSE [S EXCEPT !.stack =
                Append(SubSeq(@, 1, Len(@) - 2),
                       [parent EXCEPT
                          !.graph = loop_nod.g,
                          !.context.output_vars =
                              Put(@, pend.name,
                                  [node |-> loop_nod.val, fdef |-> fake_func])])]])])])])

\* visitCode_block returns self.graph to the method that called it.
visitCode_block(S, order) ==
    CASE Top(S).kind = "func" -> FuncDefExit(S)
      [] Top(S).kind = "then" -> SecondBlock(S, "else")
      [] Top(S).kind = "else" -> IfExit(S, order)
      [] Top(S).kind = "body" -> SecondBlock(S, "cond")
      [] Top(S).kind = "cond" -> LoopExit(S)

(***************************************************************************)
(* The declarations and instructions the program may continue with.        *)
(***************************************************************************)
Cur == Lowering(stack, status, result)

Depth == Len(stack)

Room == Fragment[frag].size - size

Orders == {o \in SeqsOf(Ids, Cardinality(Ids), Cardinality(Ids)) : Distinct(o)}

Rooms == 0..MaxSize

\* The declarations and instructions of fragment V of size at most r.
Instrs(V, r) ==
    [ alias |->
        IF "alias" \in V.kinds /\ r >= 2
        THEN {[op |-> "alias", name |-> n, type |-> t, cost |-> 2] :
                n \in V.aliasnames, t \in V.types}
        ELSE {},
      funcdef |->
        IF "funcdef" \in V.kinds
        THEN {i \in {[op |-> "funcdef", name |-> n, ins |-> p, outs |-> q,
                      cost |-> 1 + Len(p) + Len(q)] :
                        n \in V.funcs, p \in V.params, q \in V.results} :
                i.cost <= r}
        ELSE {},
      const |->
        IF "const" \in V.kinds /\ r >= 2
        THEN {[op |-> "const", name |-> n, lit |-> v, cost |-> 2] :
                n \in V.targets, v \in V.lits}
        ELSE {},
      call |->
        IF "call" \in V.kinds
        THEN {[op |-> "call", target |-> t, call |-> c, cost |-> 1 + CallCost(c)] :
                t \in V.targets, c \in Calls(V, r - 1)}
        ELSE {},
      output |->
        IF "output" \in V.kinds
        THEN {[op |-> "output", args |-> a, cost |-> ArgCost(a)] : a \in ArgLists(V, r)}
        ELSE {},
      edge |->
        IF "edge" \in V.kinds /\ r >= 2
        THEN {[op |-> "edge", source |-> s, target |-> t, cost |-> 2] :
                s \in V.labels, t \in V.labels}
        ELSE {},
      if |->
        IF "if" \in V.kinds
        THEN UNION {{[op |-> "if", target |-> t, condition |-> c, inputs |-> a,
                      cost |-> 1 + Cost(c) + ArgCost(a)] :
                        t \in V.targets, a \in OptNamedMaps(V, r - 1 - Cost(c))} :
                    c \in Outports(V, r - 1)}
        ELSE {},
      loop |->
        IF "loop" \in V.kinds /\ r >= 1
        THEN {[op |-> "loop", target |-> t, inputs |-> a, cost |-> 1 + ArgCost(a)] :
                t \in V.targets, a \in OptNamedMaps(V, r - 1)}
        ELSE {} ]

\* All the declarations and instructions of a fragment, and those of size at
\* most r.
AllInstrs == [f \in FragNames |-> Instrs(Fragment[f], Fragment[f].size)]

InstrsBy ==
    [f \in FragNames |->
        [r \in Rooms |->
            [k \in DOMAIN AllInstrs[f] |-> {i \in AllInstrs[f][k] : i.cost <= r}]]]

Here == InstrsBy[frag][Room]

AliasChoices == IF Depth = 1 THEN Here.alias ELSE {}

FuncDefChoices == IF Depth = 1 /\ Depth < MaxDepth THEN Here.funcdef ELSE {}

ConstDeclChoices == IF Depth > 1 THEN Here.const ELSE {}

CallMapChoices == IF Depth > 1 THEN Here.call ELSE {}

OutputChoices == IF Depth > 1 THEN Here.output ELSE {}

EdgeChoices == IF Depth > 1 THEN Here.edge ELSE {}

IfChoices == IF Depth > 1 /\ Depth < MaxDepth THEN Here.if ELSE {}

LoopChoices == IF Depth > 1 /\ Depth < MaxDepth THEN Here.loop ELSE {}

EndChoices ==
    IF Depth > 1 THEN {[op |-> "end", cost |-> 0]} ELSE {}

StartChoices ==
    IF Depth = 1 THEN {[op |-> "start", cost |-> 0]} ELSE {}

Choices ==
    AliasChoices \cup FuncDefChoices \cup ConstDeclChoices \cup CallMapChoices
    \cup OutputChoices \cup EdgeChoices \cup IfChoices \cup LoopChoices
    \cup EndChoices \cup StartChoices

\* TkslTopVisitor.visit on the declaration or instruction i.
Exec(S, i, order) ==
    CASE i.op = "alias"   -> visitTypeAlias(S, i.name, i.type)
      [] i.op = "funcdef" -> FuncDefEnter(S, i.name, i.ins, i.outs)
      [] i.op = "const"   -> visitConstDecl(S, i.name, i.lit)
      [] i.op = "call"    -> visitCallMap(S, i.target, i.call)
      [] i.op = "output"  -> visitOutputCall(S, i.args)
      [] i.op = "edge"    -> visitEdge(S, i.source, i.target)
      [] i.op = "if"      -> IfEnter(S, i.target, i.condition, i.inputs)
      [] i.op = "loop"    -> LoopEnter(S, i.target, i.inputs)
      [] i.op = "end"     -> visitCode_block(S, order)
      [] i.op = "start"   -> visitStart(S)

(***************************************************************************)
(* The state machine.                                                      *)
(***************************************************************************)
\* No call of infer_graph_types, or no command of the driver, is under way.
NotStarted == [pc |-> "off"]

Init ==
    /\ frag \in FragNames
    /\ stack = <<TkslTopVisitor("top", Context, NoPend)>>
    /\ status = "run"
    /\ result = <<>>
    /\ last = [op |-> "none", cost |-> 0]
    /\ size = 0
    /\ twin = Lowering(<<TkslTopVisitor("top", Context, NoPend)>>, "run", <<>>)
    /\ bridge = NotStarted
    /\ driver = NotStarted

\* The visitor has visited declaration or instruction i and S is what became
\* of the lowering.
Done(S, i) ==
    /\ stack' = S.stack
    /\ status' = S.status
    /\ result' = S.result
    /\ last' = i
    /\ size' = size + i.cost
    /\ UNCHANGED <<frag, twin, bridge, driver>>

TypeAlias ==
    /\ status = "run"
    /\ \E i \in AliasChoices : Done(visitTypeAlias(Cur, i.name, i.type), i)

FuncDef ==
    /\ status = "run"
    /\ \E i \in FuncDefChoices : Done(FuncDefEnter(Cur, i.name, i.ins, i.outs), i)

ConstDecl ==
    /\ status = "run"
    /\ \E i \in ConstDeclChoices : Done(visitConstDecl(Cur, i.name, i.lit), i)

CallMap ==
    /\ status = "run"
    /\ \E i \in CallMapChoices : Done(visitCallMap(Cur, i.target, i.call), i)

OutputCall ==
    /\ status = "run"
    /\ \E i \in OutputChoices : Done(visitOutputCall(Cur, i.args), i)

Edge ==
    /\ status = "run"
    /\ \E i \in EdgeChoices : Done(visitEdge(Cur, i.source, i.target), i)

IfBlock ==
    /\ status = "run"
    /\ \E i \in IfChoices : Done(IfEnter(Cur, i.target, i.condition, i.inputs), i)

Loop ==
    /\ status = "run"
    /\ \E i \in LoopChoices : Done(LoopEnter(Cur, i.target, i.inputs), i)

Code_block ==
    /\ status = "run"
    /\ \E i \in EndChoices, order \in Orders : Done(visitCode_block(Cur, order), i)

Start ==
    /\ status = "run"
    /\ \E i \in StartChoices : Done(visitStart(Cur), i)

Next ==
    \/ TypeAlias
    \/ FuncDef
    \/ ConstDecl
    \/ CallMap
    \/ OutputCall
    \/ Edge
    \/ IfBlock
    \/ Loop
    \/ Code_block
    \/ Start

Spec == Init /\ [][Next]_vars

\* The same program lowered twice, each run with the set order its own
\* interpreter keeps.
TwinDone(S, T, i) ==
    /\ stack' = S.stack
    /\ status' = S.status
    /\ result' = S.result
    /\ twin' = T
    /\ last' = i
    /\ size' = size + i.cost
    /\ UNCHANGED <<frag, bridge, driver>>

TwinStep ==
    /\ status = "run"
    /\ twin.status = "run"
    /\ \E i \in Choices :
       \E o1, o2 \in (IF i.op = "end" THEN Orders ELSE {<<>>}) :
          TwinDone(Exec(Cur, i, o1), Exec(twin, i, o2), i)

SpecTwin == Init /\ [][TwinStep]_vars

(***************************************************************************)
(* The type-check bridge: infer_graph_types(g, funcs, inputs).  The call   *)
(* encodes a request, hands it to the external checker and decodes the     *)
(* checker's response; the response is an input of the model.              *)
(***************************************************************************)
\* Optional values: None and a present value.
None == <<>>
Some(x) == <<x>>

\* Graphs the bridge is called with and graphs the checker answers with.
BridgeGraphs ==
    { TierkreisGraph,
      add_const_lit(TierkreisGraph, 1).g,
      add_node(TierkreisGraph, "ns/a", <<KwPort("a", NodePort(InputRef, "a"))>>).g,
      set_outputs(add_const_lit(TierkreisGraph, 1).g,
                  <<KwPort("a", NodePort(3, "value"))>>).g }

\* StructValue: a map from labels to values.
StructValues == {[a |-> 1], [a |-> 1, b |-> 1]}

\* Messages of the protocol and the conversions to and from them.
TierkreisGraph_to_proto(g) == [msg |-> "Graph", nodes |-> g.nodes, edges |-> g.edges]

TierkreisGraph_from_proto(p) == [nodes |-> p.nodes, edges |-> p.edges]

StructValue_to_proto_dict(v) == [k \in DOMAIN v |-> [msg |-> "Value", integer |-> v[k]]]

pg_StructValue(map) == [msg |-> "StructValue", map |-> map]

StructValue_from_proto(p) == [k \in DOMAIN p.map |-> p.map[k].integer]

TierkreisFunction_to_proto(func) ==
    [msg |-> "FunctionDeclaration", name |-> func.name,
     input_order |-> func.input_order, output_order |-> func.output_order]

GraphWithInputs(graph, inputs) ==
    [msg |-> "GraphWithInputs", graph |-> graph, inputs |-> inputs]

InferGraphTypesRequest(gwi, functions) ==
    [msg |-> "InferGraphTypesRequest", gwi |-> gwi, functions |-> functions]

\* InferGraphTypesResponse: the one-of response is success, error or unset
\* (which = ""); a field that is not set reads None.
InferGraphTypesResponse(which, success, error) ==
    [msg |-> "InferGraphTypesResponse", which |-> which,
     success |-> success, error |-> error]

TierkreisTypeErrors_from_proto(error) ==
    [exc |-> "TierkreisTypeErrors", errors |-> error]

\* funcs as the caller may pass it: a RuntimeSignature or an iterable of
\* functions.
FuncArgs ==
    { [isdict |-> TRUE, dict |-> sig, list |-> <<>>],
      [isdict |-> FALSE, dict |-> EmptyMap, list |-> <<sig["ns"]["a"]>>],
      [isdict |-> FALSE, dict |-> EmptyMap, list |-> <<>>] }

\* func_list, as the set of its members (the names in it are distinct).
func_list(funcs) ==
    IF funcs.isdict
    THEN {funcs.dict[ns][f] : <<ns, f>> \in
             UNION {{<<n, x>> : x \in DOMAIN funcs.dict[n]} : n \in DOMAIN funcs.dict}}
    ELSE SeqRange(funcs.list)

\* The request infer_graph_types sends.
MakeRequest(g, funcs, inputs) ==
    InferGraphTypesRequest(
        GraphWithInputs(TierkreisGraph_to_proto(g),
                        IF inputs = None THEN None
                        ELSE Some(pg_StructValue(StructValue_to_proto_dict(inputs[1])))),
        [n \in {func.name : func \in func_list(funcs)} |->
            TierkreisFunction_to_proto(CHOOSE func \in func_list(funcs) : func.name = n)])

\* What the external checker may answer.
TypeErrorBundles == {<<"TypeError 1">>, <<"TypeError 1", "TypeError 2">>}

Responses ==
    {InferGraphTypesResponse("success", Some(GraphWithInputs(TierkreisGraph_to_proto(g), i)), None) :
        g \in BridgeGraphs,
        i \in {None} \cup {Some(pg_StructValue(StructValue_to_proto_dict(v))) : v \in StructValues}}
    \cup {InferGraphTypesResponse("error", None, Some(e)) : e \in TypeErrorBundles}
    \cup {InferGraphTypesResponse("", None, None)}

\* How a call ends: a value returned or an exception raised.
Returned(v) == [kind |-> "return", value |-> v]
Raised(e) == [kind |-> "raise", value |-> e]

\* A bridge that returns the decoded graph alone whatever inputs it was given.
InferResult_graph_alone(inputs, resp) ==
    IF resp.which = "success"
    THEN Returned(TierkreisGraph_from_proto(resp.success[1].graph))
    ELSE Raised(TierkreisTypeErrors_from_proto(
                    IF resp.error = None THEN <<>> ELSE resp.error[1]))

\* infer_graph_types from the response on.
InferResult(inputs, resp) ==
    IF resp.which = "success"
    THEN Let([g \in {TierkreisGraph_from_proto(resp.success[1].graph)} |->
             IF inputs = None
             THEN IF resp.success[1].inputs = None
                  THEN Returned(g)
                  ELSE Raised([exc |-> "AssertionError", errors |-> <<>>])
             ELSE IF resp.success[1].inputs = None
                  THEN Raised([exc |-> "AttributeError", errors |-> <<>>])
                  ELSE Returned(<<g, StructValue_from_proto(resp.success[1].inputs[1])>>)])
    ELSE Raised(TierkreisTypeErrors_from_proto(
                    IF resp.error = None THEN <<>> ELSE resp.error[1]))

\* infer_graph_types is called.
InitBridge ==
    /\ frag = "scope"
    /\ stack = <<TkslTopVisitor("top", Context, NoPend)>>
    /\ status = "run"
    /\ result = <<>>
    /\ last = [op |-> "none", cost |-> 0]
    /\ size = 0
    /\ twin = Lowering(<<TkslTopVisitor("top", Context, NoPend)>>, "run", <<>>)
    /\ bridge \in [pc : {"called"}, g : BridgeGraphs, funcs : FuncArgs,
                   inputs : {None} \cup {Some(v) : v \in StructValues},
                   req : {None}, resp : {None}, out : {None}]
    /\ driver = NotStarted

\* The request is built and handed to the checker.
InferRequest ==
    /\ bridge.pc = "called"
    /\ bridge' = [bridge EXCEPT
                    !.pc = "checking",
                    !.req = Some(MakeRequest(bridge.g, bridge.funcs, bridge.inputs))]
    /\ UNCHANGED <<frag, stack, status, result, last, size, twin, driver>>

\* The checker answers.
CheckerAnswers ==
    /\ bridge.pc = "checking"
    /\ \E resp \in Responses :
          bridge' = [bridge EXCEPT !.pc = "answered", !.resp = Some(resp)]
    /\ UNCHANGED <<frag, stack, status, result, last, size, twin, driver>>

\* The response is decoded and the call returns or raises.
InferReturn ==
    /\ bridge.pc = "answered"
    /\ bridge' = [bridge EXCEPT
                    !.pc = "done",
                    !.out = Some(InferResult(bridge.inputs, bridge.resp[1]))]
    /\ UNCHANGED <<frag, stack, status, result, last, size, twin, driver>>

NextBridge ==
    \/ InferRequest
    \/ CheckerAnswers
    \/ InferReturn

SpecBridge == InitBridge /\ [][NextBridge]_vars

(***************************************************************************)
(* The driver: the commands build and check.  A run goes through the       *)
(* command's body, _check_graph and _parse; the outcomes of parse_tksl and *)
(* of client.type_check_graph are inputs of the model.  steps lists the    *)
(* steps the run has made, stderr and stdout what it has printed, file     *)
(* what it has written to the target path.                                 *)
(***************************************************************************)
\* What the parser and lowering, and the type check, may end with.
ParseOutcomes ==
    {Returned(g) : g \in BridgeGraphs}
    \cup {Raised("ParseCancellationException"), Raised("KeyError")}

TypeCheckOutcomes ==
    {Returned(g) : g \in BridgeGraphs}
    \cup {Raised("TierkreisTypeErrors"), Raised("ConnectionError")}

\* The graph the run holds and whether the type check returned it.
Graph(g, typed) == [graph |-> g, typed |-> typed]

\* The run has ended: by returning, by exit() or by an exception nobody
\* caught.
Ended(d, how) == [d EXCEPT !.pc = "ended", !.ended = how]

\* exit(): SystemExit ends the run.
exit(d) == Ended(d, "exit")

Commands ==
    [pc : {"start"}, cmd : {"build"}, suffix : {".tksl", ".txt"},
     target : {None, Some("out.bin")}, target_path : {None},
     tkg : {None}, file : {None}, returned : {None},
     stdout : {<<>>}, stderr : {<<>>}, steps : {<<>>}, ended : {""}]
    \cup
    [pc : {"start"}, cmd : {"check"}, suffix : {".tksl", ".txt"},
     target : {None}, target_path : {None},
     tkg : {None}, file : {None}, returned : {None},
     stdout : {<<>>}, stderr : {<<>>}, steps : {<<>>}, ended : {""}]

\* build up to the call of _check_graph: the target path.
build_target(d) ==
    IF d.target # None
    THEN [d EXCEPT !.pc = "parse", !.target_path = d.target]
    ELSE IF d.suffix = ".tksl"
    THEN [d EXCEPT !.pc = "parse", !.target_path = Some("source.bin")]
    ELSE Ended(d, "AssertionError")

\* A run that prints the parse error and goes on.
parse_without_exit(d, outcome) ==
    IF outcome.kind = "return"
    THEN [d EXCEPT !.pc = "type_check", !.steps = Append(@, "parse"),
                   !.tkg = Some(Graph(outcome.value, FALSE))]
    ELSE IF outcome.value = "ParseCancellationException"
    THEN [d EXCEPT !.pc = "type_check", !.steps = Append(@, "parse"),
                   !.stderr = Append(@, "Parse error")]
    ELSE Ended([d EXCEPT !.steps = Append(@, "parse")], outcome.value)

\* _parse within _check_graph: tkg = await _parse(f, client).
parse(d, outcome) ==
    IF outcome.kind = "return"
    THEN [d EXCEPT !.pc = "type_check", !.steps = Append(@, "parse"),
                   !.tkg = Some(Graph(outcome.value, FALSE))]
    ELSE IF outcome.value = "ParseCancellationException"
    THEN exit([d EXCEPT !.steps = Append(@, "parse"),
                        !.stderr = Append(@, "Parse error")])
    ELSE Ended([d EXCEPT !.steps = Append(@, "parse")], outcome.value)

\* _check_graph after _parse: tkg = await client.type_check_graph(tkg).
check_graph(d, outcome) ==
    IF outcome.kind = "return"
    THEN [d EXCEPT !.pc = "result", !.steps = Append(@, "type_check"),
                   !.tkg = Some(Graph(outcome.value, TRUE))]
    ELSE IF outcome.value = "TierkreisTypeErrors"
    THEN exit([d EXCEPT !.steps = Append(@, "type_check"),
                        !.stderr = Append(@, "TierkreisTypeErrors")])
    ELSE Ended([d EXCEPT !.steps = Append(@, "type_check")], outcome.value)

\* build after _check_graph: the graph is written to the target path.
build(d) ==
    Ended([d EXCEPT !.steps = Append(@, "result"),
                    !.file = Some([path |-> d.target_path[1],
                                   bytes |-> TierkreisGraph_to_proto(d.tkg[1].graph)])],
          "return")

\* check after _check_graph: the success message, and the graph returned.
check(d) ==
    Ended([d EXCEPT !.steps = Append(@, "result"),
                    !.stdout = Append(@, "Success: graph type check complete."),
                    !.returned = d.tkg],
          "return")

InitDriver ==
    /\ frag = "scope"
    /\ stack = <<TkslTopVisitor("top", Context, NoPend)>>
    /\ status = "run"
    /\ result = <<>>
    /\ last = [op |-> "none", cost |-> 0]
    /\ size = 0
    /\ twin = Lowering(<<TkslTopVisitor("top", Context, NoPend)>>, "run", <<>>)
    /\ bridge = NotStarted
    /\ driver \in Commands

\* The command starts.
Begin ==
    /\ driver.pc = "start"
    /\ driver' = (IF driver.cmd = "build" THEN build_target(driver)
                  ELSE [driver EXCEPT !.pc = "parse"])
    /\ UNCHANGED <<frag, stack, status, result, last, size, twin, bridge>>

\* The source is parsed and lowered.
Parse ==
    /\ driver.pc = "parse"
    /\ \E outcome \in ParseOutcomes : driver' = parse(driver, outcome)
    /\ UNCHANGED <<frag, stack, status, result, last, size, twin, bridge>>

\* The graph is type checked.
TypeCheck ==
    /\ driver.pc = "type_check"
    /\ \E outcome \in TypeCheckOutcomes : driver' = check_graph(driver, outcome)
    /\ UNCHANGED <<frag, stack, status, result, last, size, twin, bridge>>

\* build writes the target file.
Write ==
    /\ driver.pc = "result"
    /\ driver.cmd = "build"
    /\ driver' = build(driver)
    /\ UNCHANGED <<frag, stack, status, result, last, size, twin, bridge>>

\* check prints the success message.
Success ==
    /\ driver.pc = "result"
    /\ driver.cmd = "check"
    /\ driver' = check(driver)
    /\ UNCHANGED <<frag, stack, status, result, last, size, twin, bridge>>

NextDriver ==
    \/ Begin
    \/ Parse
    \/ TypeCheck
    \/ Write
    \/ Success

SpecDriver == InitDriver /\ [][NextDriver]_vars

(***************************************************************************)
(* Properties.  last is the declaration or instruction the visitor has     *)
(* just visited; in a step, last' is the one the step visits.              *)
(***************************************************************************)
Now == Top(Cur)

Visiting == stack'[Len(stack')]

LastEdges(g, n) == SubSeq(g.edges, Len(g.edges) - n + 1, Len(g.edges))

LastNode(g) == g.nodes[Len(g.nodes)]

AllConst(items) == \A i \in 1..Len(items) : items[i].k = "const"

\* An output statement of one bare identifier, output(k = x) or output(x).
BareUse ==
    last.op = "output" /\ Len(last.args.items) = 1 /\ last.args.items[1].k = "id"

\* The table the priority order finds x in.
TableOf(ctx, x) ==
    IF x \in SeqRange(ctx.inputs) THEN "inputs"
    ELSE IF x \in DOMAIN ctx.output_vars THEN "output_vars"
    ELSE IF x \in DOMAIN ctx.functions THEN "functions"
    ELSE IF x \in DOMAIN ctx.constants THEN "constants"
    ELSE "none"

\* The ports x stands for when it is found in table t; g is the graph after
\* the resolution.
PortsOf(ctx, g, x, t) ==
    CASE t = "inputs" -> <<NodePort(InputRef, x)>>
      [] t = "output_vars" ->
            [i \in 1..Len(ctx.output_vars[x].fdef.outputs) |->
                NodePort(ctx.output_vars[x].node, ctx.output_vars[x].fdef.outputs[i])]
      [] t = "functions" -> <<NodePort(Len(g.nodes), "value")>>
      [] t = "constants" -> <<NodePort(ctx.constants[x], "value")>>
      [] OTHER -> <<>>

\* The edges an output statement makes from the ports of its one out-port.
WiredBy(args, ports, outputs) ==
    IF args.form = "named"
    THEN <<TierkreisEdge(ports[1], NodePort(OutputRef, args.keys[1]))>>
    ELSE [i \in 1..Min(Len(ports), Len(outputs)) |->
            TierkreisEdge(ports[i], NodePort(OutputRef, outputs[i]))]

\* C1: a bare identifier used as an out-port stands for the input port of
\* that name if it is a declared input, else for all the outputs (in
\* signature order) of the call result bound to it, else for the value port
\* of a new constant node carrying the function of that name, else for the
\* value port of the constant node declared under that name; a name in none
\* of the four tables ends the lowering with NameNotInScope and no graph.
C1_BareIdentifierPriority ==
    BareUse =>
        LET ctx   == Now.context
            g     == Now.graph
            x     == last.args.items[1].id
            t     == TableOf(ctx, x)
            ports == PortsOf(ctx, g, x, t)
        IN  IF t = "none" THEN status = "NameNotInScope" /\ result = <<>>
            ELSE IF last.args.form = "named" /\ ports = <<>> THEN status = "IndexError"
            ELSE /\ status \in {"run", "PortDoubleWired"}
                 /\ status = "run" =>
                      LET w == WiredBy(last.args, ports, ctx.outputs)
                      IN  /\ Len(g.edges) >= Len(w)
                          /\ LastEdges(g, Len(w)) = w
                          /\ t = "functions" =>
                                LastNode(g) = Node("const", "const", 0,
                                                   <<ctx.functions[x].graph>>)

\* A name that is both a bound call result and a declared constant has been
\* used as an out-port.
C1_Witness ==
    /\ BareUse
    /\ status = "run"
    /\ last.args.items[1].id \in DOMAIN Now.context.output_vars
    /\ last.args.items[1].id \in DOMAIN Now.context.constants

\* A call instruction t = ns::f(args) or t = f(args).
NamedCall == last.op = "call" /\ last.call.kind = "func"

InCatalog(c) ==
    LET namespace == IF c.ns # "" THEN c.ns ELSE "builtin"
    IN  namespace \in DOMAIN sig /\ c.f \in DOMAIN sig[namespace]

\* No argument of the call is itself a call.
Flat(c) == \A i \in 1..Len(c.args.items) : c.args.items[i].k # "call"

CatalogEntry(c) == sig[IF c.ns # "" THEN c.ns ELSE "builtin"][c.f]

\* C2: the name of a call is looked up in the catalog first (namespace
\* builtin when unqualified) and then in the local functions; a catalog hit
\* becomes a plain node with the canonical name of the entry, a local hit a
\* box node carrying the graph of the function, and a name in neither ends
\* the lowering with UnknownFunction and no graph.
C2_CallResolution ==
    NamedCall =>
        LET ctx == Now.context
            g   == Now.graph
            c   == last.call
        IN  IF InCatalog(c)
            THEN /\ Flat(c) => status # "UnknownFunction"
                 /\ status = "run" =>
                      /\ ctx.output_vars[last.target].node = Len(g.nodes)
                      /\ LastNode(g) = Node("node", CatalogEntry(c).name, 0, <<>>)
            ELSE IF c.f \in DOMAIN ctx.functions
            THEN /\ Flat(c) => status # "UnknownFunction"
                 /\ status = "run" =>
                      /\ ctx.output_vars[last.target].node = Len(g.nodes)
                      /\ LastNode(g) = Node("box", c.f, 0, <<ctx.functions[c.f].graph>>)
            ELSE status = "UnknownFunction" /\ result = <<>>

\* A call by a name that is both in the catalog and a local function.
C2_Witness ==
    /\ NamedCall
    /\ status = "run"
    /\ InCatalog(last.call)
    /\ last.call.f \in DOMAIN Now.context.functions

\* C3 (as the specification states it): a positional argument list whose
\* number of out-ports differs from the number of expected ports (the inputs
\* of the callee, the outputs of the function for output) ends the lowering
\* with ArityMismatch.
C3_ArityMismatch ==
    /\ ( /\ last.op = "output"
         /\ last.args.form = "pos"
         /\ AllConst(last.args.items)
         /\ Len(last.args.items) # Len(Now.context.outputs) )
       => status = "ArityMismatch"
    /\ ( /\ NamedCall
         /\ last.call.args.form = "pos"
         /\ AllConst(last.call.args.items)
         /\ visitF_name(Now.context, last.call).err = ""
         /\ Len(last.call.args.items)
              # Len(visitF_name(Now.context, last.call).fdef.inputs) )
       => status = "ArityMismatch"

SingleWriter(g) ==
    \A i, j \in 1..Len(g.edges) : i # j => g.edges[i].target # g.edges[j].target

\* Every graph the lowering holds: the graphs of the visitors, the graphs of
\* the blocks already lowered, the graphs of the declared functions and the
\* graph returned.
GraphsOf ==
    UNION {{stack[k].graph} \cup SeqRange(stack[k].pend.g1)
           \cup {stack[k].context.functions[f].graph :
                    f \in DOMAIN stack[k].context.functions} : k \in 1..Len(stack)}
    \cup SeqRange(result)

Bound(ctx, o) == o.id \in DOMAIN ctx.output_vars

PortOf(ctx, o) == NodePort(ctx.output_vars[o.id].node, o.port)

C4_Step ==
    /\ \A g \in GraphsOf' : SingleWriter(g)
    /\ ( /\ last'.op = "edge"
         /\ Bound(Now.context, last'.source)
         /\ Bound(Now.context, last'.target) )
       => IF PortWired(Now.graph, PortOf(Now.context, last'.target))
          THEN status' = "PortDoubleWired"
          ELSE /\ status' = "run"
               /\ Visiting.graph.edges =
                    Append(Now.graph.edges,
                           TierkreisEdge(PortOf(Now.context, last'.source),
                                         PortOf(Now.context, last'.target)))
    /\ ( /\ last'.op = "output"
         /\ last'.args.form = "named"
         /\ AllConst(last'.args.items)
         /\ \E i \in 1..Len(last'.args.keys) :
                PortWired(Now.graph, NodePort(OutputRef, last'.args.keys[i])) )
       => status' = "PortDoubleWired"

\* C4: in every graph of the lowering each (node, port) is the target of at
\* most one edge, whatever instructions were lowered; an edge declaration to
\* a port that is already wired, or an output statement naming an output
\* port that is already wired, ends the lowering with PortDoubleWired, and
\* an edge declaration to a free port adds exactly that edge.
C4_SingleWriter == [][C4_Step]_vars

\* An edge declaration to a port that was wired has been refused.
C4_Witness == last.op = "edge" /\ status = "PortDoubleWired"

EdgeTargets(g, n) == [i \in 1..n |-> LastEdges(g, n)[i].target]

C5_Step ==
    /\ last'.op = "funcdef" =>
          /\ Visiting.kind = "func"
          /\ Visiting.context.inputs = last'.ins
          /\ Visiting.context.outputs = last'.outs
          /\ Visiting.pend.fdef.inputs = last'.ins
          /\ Visiting.pend.fdef.outputs = last'.outs
    /\ Len(stack') = Len(stack) /\ Now.kind = "func" =>
          /\ Visiting.context.inputs = Now.context.inputs
          /\ Visiting.context.outputs = Now.context.outputs
    /\ last'.op = "end" /\ Now.kind = "func" =>
          /\ Visiting.context.functions[Now.pend.name].fdef.inputs = Now.context.inputs
          /\ Visiting.context.functions[Now.pend.name].fdef.outputs = Now.context.outputs
    /\ ( /\ last'.op = "output"
         /\ last'.args.form = "pos"
         /\ AllConst(last'.args.items)
         /\ status' = "run" )
       => LET n == Min(Len(last'.args.items), Len(Now.context.outputs))
          IN  EdgeTargets(Visiting.graph, n) =
                [i \in 1..n |-> NodePort(OutputRef, Now.context.outputs[i])]
    /\ ( /\ last'.op = "call"
         /\ last'.call.kind = "func"
         /\ last'.call.args.form = "pos"
         /\ AllConst(last'.call.args.items)
         /\ ~InCatalog(last'.call)
         /\ status' = "run" )
       => LET ins == Now.context.functions[last'.call.f].fdef.inputs
              n   == Min(Len(last'.call.args.items), Len(ins))
          IN  EdgeTargets(Visiting.graph, n) =
                [i \in 1..n |-> NodePort(Len(Visiting.graph.nodes), ins[i])]

Prefix(old, new) ==
    /\ Len(old.nodes) <= Len(new.nodes)
    /\ SubSeq(new.nodes, 1, Len(old.nodes)) = old.nodes

Added(old, new) == SubSeq(new.nodes, Len(old.nodes) + 1, Len(new.nodes))

\* How many of the nodes are in the set S.
Count(nodes, S) == Cardinality({i \in 1..Len(nodes) : nodes[i] \in S})

Plain(name) == Node("node", name, 0, <<>>)

Carrier(sub) == Node("const", "const", 0, <<sub>>)

IfReturns == last'.op = "end" /\ Now.kind = "else" /\ status' = "run"

LoopReturns == last'.op = "end" /\ Now.kind = "cond" /\ status' = "run"

C6_Step ==
    /\ last'.op \in {"if", "loop"} /\ status' = "run" =>
          /\ Len(stack') = Len(stack) + 1
          /\ Visiting.graph = TierkreisGraph
          /\ Prefix(Now.graph, stack'[Len(stack)].graph)
    /\ last'.op = "end" /\ Now.kind \in {"then", "body"} =>
          Visiting.graph = TierkreisGraph
    /\ Len(stack') = Len(stack) =>
          \A k \in 1..(Len(stack) - 1) : stack'[k].graph = stack[k].graph
    /\ IfReturns =>
          LET add == Added(Below(Cur).graph, Visiting.graph)
          IN  /\ Prefix(Below(Cur).graph, Visiting.graph)
              /\ Len(add) = 4
              /\ Count(add, {Plain("builtin/switch")}) = 1
              /\ Count(add, {Plain("builtin/eval")}) = 1
              /\ Count(add, {Carrier(Now.pend.g1[1]), Carrier(Now.graph)}) = 2
    /\ LoopReturns =>
          LET add == Added(Below(Cur).graph, Visiting.graph)
          IN  /\ Prefix(Below(Cur).graph, Visiting.graph)
              /\ Len(add) = 3
              /\ Count(add, {Plain("builtin/loop")}) = 1
              /\ Count(add, {Carrier(Now.pend.g1[1]), Carrier(Now.graph)}) = 2

\* C6 (amended): the blocks of an if or a loop are lowered into graphs of
\* their own, which start empty, and nothing lowered in a block changes the
\* graph of an enclosing visitor; when the blocks have been lowered the if
\* adds to the parent graph one builtin/switch node, one builtin/eval node
\* and the two constant nodes carrying the graphs of its blocks, and the
\* loop one builtin/loop node and the two constant nodes carrying the graphs
\* of its blocks.  Before its blocks are lowered the instruction only adds
\* nodes to the parent graph (those its condition and inputs stand for).
C6_SubGraphIsolation == [][C6_Step]_vars

\* An if whose then block made a node has been lowered into its parent.
C6_Witness ==
    /\ last.op = "end"
    /\ status = "run"
    /\ Now.kind = "func"
    /\ LastNode(Now.graph) = Plain("builtin/eval")
    /\ \E i \in 1..Len(Now.graph.nodes) :
          /\ Now.graph.nodes[i].sub # <<>>
          /\ Len(Now.graph.nodes[i].sub[1].nodes) > 2

\* C6 (as the specification states it): an if adds no node to the parent
\* graph but one builtin/switch and one builtin/eval node, a loop none but
\* one builtin/loop node (the constant nodes that carry the graphs of the
\* blocks not counted).
C6_OnlySwitchEvalLoop ==
    [][ /\ last'.op \in {"if", "loop"} /\ status' = "run" =>
              stack'[Len(stack)].graph.nodes = Now.graph.nodes
        /\ IfReturns =>
              LET add == Added(Below(Cur).graph, Visiting.graph)
                  own == {Carrier(Now.pend.g1[1]), Carrier(Now.graph)}
              IN  /\ Len(add) - Count(add, own) = 2
                  /\ Count(add, {Plain("builtin/switch")}) = 1
                  /\ Count(add, {Plain("builtin/eval")}) = 1
        /\ LoopReturns =>
              LET add == Added(Below(Cur).graph, Visiting.graph)
                  own == {Carrier(Now.pend.g1[1]), Carrier(Now.graph)}
              IN  /\ Len(add) - Count(add, own) = 1
                  /\ Count(add, {Plain("builtin/loop")}) = 1 ]_vars

\* m2 is m1 but for what it holds at k.
SameExcept(m1, m2, k) ==
    /\ DOMAIN m2 = DOMAIN m1 \cup {k}
    /\ \A x \in DOMAIN m1 \ {k} : m2[x] = m1[x]

C7_Step ==
    /\ Len(stack') = Len(stack) =>
          \A k \in 1..(Len(stack) - 1) : stack'[k].context = stack[k].context
    /\ Len(stack') = Len(stack) + 1 =>
          \A k \in 1..Len(stack) : stack'[k].context = stack[k].context
    /\ Len(stack') = Len(stack) - 1 =>
          LET p == Below(Cur).context
              q == Visiting.context
          IN  /\ \A k \in 1..(Len(stack') - 1) : stack'[k].context = stack[k].context
              /\ IF Now.kind = "func"
                 THEN /\ q = [p EXCEPT !.functions = q.functions]
                      /\ SameExcept(p.functions, q.functions, Now.pend.name)
                 ELSE /\ q = [p EXCEPT !.output_vars = q.output_vars]
                      /\ SameExcept(p.output_vars, q.output_vars, Now.pend.name)
    /\ last'.op = "end" /\ Now.kind \in {"then", "body"} =>
          /\ DOMAIN Visiting.context.output_vars \cap DOMAIN Now.context.output_vars = {}
          /\ DOMAIN Visiting.context.constants \cap DOMAIN Now.context.constants = {}

\* C7: while a nested block (function body, then, else, loop body, loop
\* condition) is lowered the contexts of the enclosing visitors do not
\* change; when it returns, the context of the parent is what it was but for
\* the one binding of the target (of the function name) the parent makes;
\* and no call result or constant bound in the first block of an if or loop
\* is bound in the context of the second.
C7_ParentContextKept == [][C7_Step]_vars

\* The then block of an if has bound a constant and returned, in a function
\* that has a constant of its own.
C7_Witness ==
    /\ last.op = "end"
    /\ Now.kind = "else"
    /\ Len(Now.pend.g1[1].nodes) > 2
    /\ Below(Cur).context.constants # EmptyMap

Blocks == {"then", "else", "body", "cond"}

\* C8 (as the specification states it): the context a block of an if or a
\* loop is lowered in holds every function and every type alias of the
\* context of the instruction, and its inputs are the names of the inputs
\* given to the instruction.
C8_BlockContext ==
    \A k \in 2..Len(stack) :
        stack[k].kind \in Blocks =>
            LET p == stack[k - 1].context
                c == stack[k].context
            IN  /\ \A f \in DOMAIN p.functions :
                      f \in DOMAIN c.functions /\ c.functions[f] = p.functions[f]
                /\ \A a \in DOMAIN p.aliases :
                      a \in DOMAIN c.aliases /\ c.aliases[a] = p.aliases[a]
                /\ c.inputs = KwNames(stack[k].pend.inputs)

\* C9 (as the specification states it): two lowerings of the same program
\* with the same catalog are equal at every point: the same graphs, and the
\* same contexts, the order of the outputs recorded for an if among them.
C9_SameLowering == twin = Cur

\* C10 (as the specification states it): a declaration of a name that is
\* already declared in the same scope (constant, call target, type alias,
\* function, if or loop target) ends the lowering with DuplicateDeclaration
\* when the visitor comes to bind the name.
C10_DuplicateDeclaration ==
    [][ /\ last'.op = "const" /\ last'.name \in DOMAIN Now.context.constants =>
              status' = "DuplicateDeclaration"
        /\ last'.op = "call" /\ last'.target \in DOMAIN Now.context.output_vars =>
              status' = "DuplicateDeclaration"
        /\ last'.op = "alias" /\ last'.name \in DOMAIN Now.context.aliases =>
              status' = "DuplicateDeclaration"
        /\ ( /\ last'.op = "end"
             /\ Now.kind = "func"
             /\ Now.pend.name \in DOMAIN Below(Cur).context.functions )
           => status' = "DuplicateDeclaration"
        /\ ( /\ last'.op = "end"
             /\ Now.kind \in {"else", "cond"}
             /\ Now.pend.name \in DOMAIN Below(Cur).context.output_vars )
           => status' = "DuplicateDeclaration" ]_vars

(***************************************************************************)
(* The lowering of an if.                                                  *)
(***************************************************************************)
\* The edges the step has added to the graph old, which is new now.
AddedEdges(old, new) == SubSeq(new.edges, Len(old.edges) + 1, Len(new.edges))

\* The edges among es that end at node n.
Into(es, n) == {es[i] : i \in {j \in 1..Len(es) : es[j].target.node = n}}

\* The nodes of g from index lo on that are the node nd.
Where(g, lo, nd) == {i \in lo..Len(g.nodes) : g.nodes[i] = nd}

C13_Step ==
    /\ last'.op = "if" /\ status' = "run" =>
          /\ Visiting.pend.name = last'.target
          /\ SeqRange(KwNames(Visiting.pend.inputs)) = SeqRange(last'.inputs.keys)
          /\ Distinct(KwNames(Visiting.pend.inputs))
    /\ IfReturns =>
          LET old    == Below(Cur).graph
              new    == Visiting.graph
              pend   == Now.pend
              lo     == Len(old.nodes) + 1
              es     == AddedEdges(old, new)
              sws    == Where(new, lo, Plain("builtin/switch"))
              evs    == Where(new, lo, Plain("builtin/eval"))
          IN  /\ Prefix(old, new)
              /\ SubSeq(new.edges, 1, Len(old.edges)) = old.edges
              /\ Cardinality(sws) = 1
              /\ Cardinality(evs) = 1
              /\ \A sw \in sws, ev \in evs :
                    /\ \E t \in Where(new, lo, Carrier(pend.g1[1])) :
                       \E e \in Where(new, lo, Carrier(Now.graph)) \ {t} :
                          Into(es, sw) =
                             { TierkreisEdge(pend.cond[1], NodePort(sw, "pred")),
                               TierkreisEdge(NodePort(t, "value"), NodePort(sw, "if_true")),
                               TierkreisEdge(NodePort(e, "value"), NodePort(sw, "if_false")) }
                    /\ Into(es, ev) =
                          { TierkreisEdge(NodePort(sw, "value"), NodePort(ev, "thunk")) }
                          \cup { TierkreisEdge(pend.inputs[i].np[1],
                                               NodePort(ev, pend.inputs[i].port)) :
                                    i \in 1..Len(pend.inputs) }
                    /\ Len(es) = 4 + Len(pend.inputs)
                    /\ pend.name \in DOMAIN Visiting.context.output_vars
                    /\ Visiting.context.output_vars[pend.name].node = ev
                    /\ Visiting.context.output_vars[pend.name].fdef.inputs =
                          KwNames(pend.inputs)
                    /\ SeqRange(Visiting.context.output_vars[pend.name].fdef.outputs) =
                          SeqRange(GraphOutputs(pend.g1[1]))
                          \cup SeqRange(GraphOutputs(Now.graph))
                    /\ Distinct(Visiting.context.output_vars[pend.name].fdef.outputs)

\* C13: lowering `target = if cond (inputs) { then } else { else }` adds to
\* the graph one builtin/switch node, wired at pred from the resolved
\* condition and at if_true and if_false from the constants carrying the
\* graphs of the then and the else block, and one builtin/eval node, wired
\* at thunk from the switch's value port and otherwise exactly at the named
\* inputs; target is bound in output_vars to the eval node with a signature
\* whose inputs are the input names and whose outputs are the union of the
\* output names of the two blocks.
C13_IfLowering == [][C13_Step]_vars

\* An if with an input has been lowered whose else block has an output the
\* then block has not.
C13_Witness ==
    /\ last.op = "end"
    /\ status = "run"
    /\ Now.kind = "func"
    /\ LastNode(Now.graph) = Plain("builtin/eval")
    /\ \E x \in DOMAIN Now.context.output_vars :
          /\ Now.context.output_vars[x].node = Len(Now.graph.nodes)
          /\ Now.context.output_vars[x].fdef.inputs # <<>>
          /\ Now.context.output_vars[x].fdef.outputs # <<>>
          /\ \E i \in 1..Len(Now.graph.nodes) :
                /\ Now.graph.nodes[i].sub # <<>>
                /\ GraphOutputs(Now.graph.nodes[i].sub[1]) = <<>>

(***************************************************************************)
(* Nesting of function graphs.                                             *)
(***************************************************************************)
\* The graphs stored for the functions in table fs.
StoredGraphs(fs) == {fs[f].graph : f \in DOMAIN fs}

\* Every box of g is the graph stored in fs under the box's name, which is
\* not own; every graph a constant of g carries is a graph stored in fs or
\* (the graph of a block of an if or a loop) nests in the same way.
RECURSIVE NestsIn(_, _, _)
NestsIn(g, fs, own) ==
    \A i \in 1..Len(g.nodes) :
        /\ g.nodes[i].kind = "box" =>
              /\ g.nodes[i].name # own
              /\ g.nodes[i].name \in DOMAIN fs
              /\ g.nodes[i].sub[1] = fs[g.nodes[i].name].graph
        /\ g.nodes[i].kind = "const" /\ g.nodes[i].sub # <<>> =>
              \/ g.nodes[i].sub[1] \in StoredGraphs(fs)
              \/ NestsIn(g.nodes[i].sub[1], fs, own)

\* visitFuncDef stores the graph of the function it has lowered.
FuncReturns == last'.op = "end" /\ Now.kind = "func" /\ status' = "run"

Answer == bridge.resp[1]

Outcome == bridge.out[1]

\* The outcome the two cases of the bridge prescribe for the response.
TwoOutcomes ==
    IF Answer.which = "success"
    THEN /\ Outcome.kind = "return"
         /\ IF bridge.inputs = None
            THEN Outcome.value = TierkreisGraph_from_proto(Answer.success[1].graph)
            ELSE /\ Answer.success[1].inputs # None
                 /\ Outcome.value =
                       << TierkreisGraph_from_proto(Answer.success[1].graph),
                          StructValue_from_proto(Answer.success[1].inputs[1]) >>
    ELSE /\ Outcome.kind = "raise"
         /\ Outcome.value.exc = "TierkreisTypeErrors"
         /\ Answer.error # None => Outcome.value.errors = Answer.error[1]

\* A success response carries inputs exactly when the call passed inputs.
InputsEchoed ==
    Answer.which = "success" => ((Answer.success[1].inputs = None) <=> (bridge.inputs = None))

RunSteps == <<"parse", "type_check", "result">>

\* The steps made so far are the first steps of a run, each made once.
StepsInOrder ==
    /\ Len(driver.steps) <= Len(RunSteps)
    /\ driver.steps = SubSeq(RunSteps, 1, Len(driver.steps))

\* Nothing has come out of the run: no target file, no success message, no
\* graph returned.
NoResult ==
    /\ driver.file = None
    /\ driver.stdout = <<>>
    /\ driver.returned = None

Reported(e) == e \in SeqRange(driver.stderr)

\* C12: in every run of build or check the steps are made in the order
\* parse, type check, result, each at most once; when the parser has raised
\* a parse error the run has ended with the parse as its only step, when the
\* type check has raised type errors it has ended with the type check as
\* its last step, and in both cases no target file is written, no success
\* message printed and no graph returned; a file written or a graph
\* returned is the graph the type check returned.
C12_FailFast ==
    driver.pc # "off" =>
        /\ StepsInOrder
        /\ Reported("Parse error") =>
              /\ driver.pc = "ended"
              /\ driver.steps = <<"parse">>
              /\ NoResult
        /\ Reported("TierkreisTypeErrors") =>
              /\ driver.pc = "ended"
              /\ driver.steps = <<"parse", "type_check">>
              /\ NoResult
        /\ ~NoResult =>
              /\ driver.steps = RunSteps
              /\ driver.stderr = <<>>
              /\ driver.tkg[1].typed
              /\ driver.file # None =>
                    driver.file[1].bytes = TierkreisGraph_to_proto(driver.tkg[1].graph)
              /\ driver.returned # None => driver.returned = driver.tkg

\* A build whose type check raised type errors has ended and left no file.
C12_Witness ==
    /\ driver.pc = "ended"
    /\ driver.cmd = "build"
    /\ driver.ended = "exit"
    /\ Reported("TierkreisTypeErrors")
    /\ driver.file = None

====
